---- MODULE Spec2Model ----
(***************************************************************************)
(* Model of ceda/unittest_nagios_wrapper/script.py: the nagios_script      *)
(* entry point (argument parsing, precedence of command-line flags over    *)
(* caller defaults, Slack handler set-up, test selection) and the          *)
(* UnittestCaseResource.probe / UnittestCaseContext.evaluate pair that the *)
(* nagiosplugin check engine drives.                                       *)
(*                                                                         *)
(* Optional Python values are encoded as sequences: None is <<>> and a     *)
(* value v is <<v>>.  Strings built by str.format / str.join that the      *)
(* properties need to take apart again are kept as sequences of pieces.    *)
(***************************************************************************)
EXTENDS Integers, Sequences, FiniteSets, TLC

(* ------------------------------ bounds -------------------------------- *)

\* longest command line (sys.argv[1:]) that is enumerated
MaxArgs == 2

\* number of test methods of the wrapped unittest.TestCase class
NumTests == 2

(* ------------------------- Python's None ------------------------------ *)

None == <<>>

Some(v) == <<v>>

Val(o) == o[1]

(* ------------------- the wrapped unittest.TestCase -------------------- *)

\* unittestcase_class.__name__
ClassName == "T"

\* the names in dir(unittestcase_class) that start with 'test', sorted
MethodNames == <<"test_a", "test_b", "test_c">>

Methods == {MethodNames[i] : i \in 1..NumTests}

\* '{}.{}'.format(unittestcase_class.__name__, name_)
TestId(name_) == ClassName \o "." \o name_

test_names == [i \in 1..NumTests |-> TestId(MethodNames[i])]

\* str() of a unittest test object: method name and the class it belongs to
TestStr(m) == m \o " (" \o ClassName \o ")"

(* --------------------------- logging levels --------------------------- *)

\* logging._levelToName
LevelToName ==
  (50 :> "CRITICAL") @@ (40 :> "ERROR") @@ (30 :> "WARNING") @@
  (20 :> "INFO") @@ (10 :> "DEBUG") @@ (0 :> "NOTSET")

\* logging._nameToLevel
NameToLevel ==
  ("CRITICAL" :> 50) @@ ("FATAL" :> 50) @@ ("ERROR" :> 40) @@
  ("WARN" :> 30) @@ ("WARNING" :> 30) @@ ("INFO" :> 20) @@
  ("DEBUG" :> 10) @@ ("NOTSET" :> 0)

LOG_LEVEL_NAMES == DOMAIN NameToLevel

\* dict.get(key): None when the key is absent (a None key is never present)
levelToName_get(level) ==
  IF level # None /\ Val(level) \in DOMAIN LevelToName
  THEN Some(LevelToName[Val(level)]) ELSE None

nameToLevel_get(name) ==
  IF name # None /\ Val(name) \in DOMAIN NameToLevel
  THEN Some(NameToLevel[Val(name)]) ELSE None

(* --------------------------- command line ----------------------------- *)

\* option string |-> dest of the parser.add_argument calls
Dest ==
  ("-n" :> "check_name") @@ ("-l" :> "log_level") @@
  ("-s" :> "slack_webhook_url") @@ ("-c" :> "slack_channel") @@
  ("-u" :> "slack_user")

Flags == DOMAIN Dest

\* the non-option words that are enumerated on the command line
Words == {TestId(MethodNames[1]), "DEBUG"}

Tokens == Flags \cup Words

RECURSIVE SeqsUpTo(_, _)
SeqsUpTo(S, n) ==
  IF n = 0 THEN {<<>>}
  ELSE LET shorter == SeqsUpTo(S, n - 1)
       IN  shorter \cup {Append(s, t) : s \in {q \in shorter : Len(q) = n - 1}, t \in S}

ArgvSet == SeqsUpTo(Tokens, MaxArgs)

\* the defaults the add_argument calls install in the namespace
ParserDefaults(check_name_, log_level_s_, slack_channel_, slack_user_) ==
  [check_name        |-> check_name_,
   log_level         |-> log_level_s_,
   slack_webhook_url |-> None,
   slack_channel     |-> slack_channel_,
   slack_user        |-> slack_user_]

\* ArgumentParser.parse_known_args: every option takes one argument, a word
\* that no option consumes is left over, an option without its argument is
\* a usage error
RECURSIVE ParseFrom(_, _, _, _)
ParseFrom(args, i, ns, extras) ==
  IF i > Len(args) THEN [ok |-> TRUE, ns |-> ns, extras |-> extras]
  ELSE IF args[i] \in Flags
       THEN IF i + 1 > Len(args) \/ args[i + 1] \in Flags
            THEN [ok |-> FALSE, ns |-> ns, extras |-> extras]
            ELSE ParseFrom(args, i + 2,
                           [ns EXCEPT ![Dest[args[i]]] = Some(args[i + 1])],
                           extras)
       ELSE ParseFrom(args, i + 1, ns, Append(extras, args[i]))

parse_known_args(args, defaults) == ParseFrom(args, 1, defaults, <<>>)

(* ------------------------ nagios_script helpers ----------------------- *)

\* variant: the command-line value is never taken
OverrideAlways(parsed, default) == default

\* "if parsed_args.X is not None: X = parsed_args.X"
Override(parsed, default) == IF parsed # None THEN parsed ELSE default

\* variant: level= is not passed on, the handler keeps logging.NOTSET
SlackHandlerNoLevel(url, channel, username, level) ==
  [url |-> url, channel |-> channel, username |-> username, level |-> Some(0)]

\* SlackHandler(slack_webhook_url, channel=, username=, level=)
SlackHandler(url, channel, username, level) ==
  [url |-> url, channel |-> channel, username |-> username, level |-> level]

\* variant: an empty selection is left empty
SelectionNoDefault(extras) == extras

\* "if len(selected_test_names) == 0: selected_test_names = [class name]"
Selection(extras) == IF Len(extras) = 0 THEN <<ClassName>> ELSE extras

\* variant: the check_name parameter is the default when it is set
CheckNameDefaultFromArg(check_name_) ==
  IF check_name_ # None THEN check_name_ ELSE Some(ClassName)

\* default= of the -n/--test-name option: the check_name parameter is not read
CheckNameDefault(check_name_) == Some(ClassName)

(* ---------------------- the unittest test engine ---------------------- *)

\* what can happen to one test method: it passes, its body fails an
\* assertion, it raises, or its body fails and its tearDown raises as well
Outcomes == {"pass", "fail", "error", "fail_error"}

\* the traceback text unittest stores next to a failed test
Detail(m, kind) == kind \o " in " \o m

\* unittest.defaultTestLoader.loadTestsFromTestCase(cls): every test method
\* of the class, in name order
loadTestsFromTestCase == [i \in 1..NumTests |-> MethodNames[i]]

SeqToSet(s) == {s[i] : i \in 1..Len(s)}

\* test_suite.run(result): the TestResult after running the suite when test
\* m ends as o[m]
RunSuite(test_suite, o) ==
  LET errs  == SelectSeq(test_suite, LAMBDA m : o[m] \in {"error", "fail_error"})
      fails == SelectSeq(test_suite, LAMBDA m : o[m] \in {"fail", "fail_error"})
  IN  [testsRun |-> Len(test_suite),
       errors   |-> [i \in 1..Len(errs)  |-> <<errs[i],  Detail(errs[i], "error")>>],
       failures |-> [i \in 1..Len(fails) |-> <<fails[i], Detail(fails[i], "failure")>>]]

(* ------------------- UnittestCaseContext.evaluate --------------------- *)

n_problems(res) == Len(res.failures) + Len(res.errors)

\* variant: testsRun is compared with the failures alone
StatusOfFailuresOnly(res) ==
  IF n_problems(res) > 0
  THEN IF res.testsRun = Len(res.failures) THEN "Critical" ELSE "Warn"
  ELSE "Ok"

\* the status chosen by the n_problems / testsRun branches
StatusOf(res) ==
  IF n_problems(res) > 0
  THEN IF res.testsRun = n_problems(res) THEN "Critical" ELSE "Warn"
  ELSE "Ok"

\* sep.join(list), as the sequence of its pieces
RECURSIVE Join(_, _)
Join(list, sep) ==
  IF Len(list) = 0 THEN <<>>
  ELSE IF Len(list) = 1 THEN <<list[1]>>
  ELSE <<list[1], sep>> \o Join(Tail(list), sep)

\* hint_list after the two loops: errors first, then failures
hint_list(res) ==
  [i \in 1..Len(res.errors) |-> TestStr(res.errors[i][1])]
  \o [i \in 1..Len(res.failures) |-> TestStr(res.failures[i][1])]

\* variant: the loop over result.failures is missing
HintOfErrorsOnly(test_name, res) ==
  IF n_problems(res) > 0
  THEN <<IF res.testsRun = n_problems(res)
         THEN "All tests failed: " ELSE "Some tests failed: ">>
       \o Join([i \in 1..Len(res.errors) |-> TestStr(res.errors[i][1])], ", ")
  ELSE <<test_name, " test passed">>

\* the hint of the returned Result
HintOf(test_name, res) ==
  IF n_problems(res) > 0
  THEN <<IF res.testsRun = n_problems(res)
         THEN "All tests failed: " ELSE "Some tests failed: ">>
       \o Join(hint_list(res), ", ")
  ELSE <<test_name, " test passed">>

\* the log.error / log.debug pair of one loop iteration
ProblemRecords(p) ==
  <<[level |-> "ERROR", msg |-> TestStr(p[1]), attachment |-> None],
    [level |-> "DEBUG", msg |-> "", attachment |-> Some(p[2])]>>

RECURSIVE LoopRecords(_)
LoopRecords(problems) ==
  IF Len(problems) = 0 THEN <<>>
  ELSE ProblemRecords(Head(problems)) \o LoopRecords(Tail(problems))

\* variant: the log.debug calls are missing
LogRecordsNoDebug(described, res) ==
  IF n_problems(res) > 0
  THEN <<[level |-> "CRITICAL", msg |-> described \o " failed", attachment |-> None]>>
       \o SelectSeq(LoopRecords(res.errors) \o LoopRecords(res.failures),
                    LAMBDA r : r.level # "DEBUG")
  ELSE <<>>

\* the records evaluate hands to the 'nagiosplugin' logger, in call order
LogRecords(described, res) ==
  IF n_problems(res) > 0
  THEN <<[level |-> "CRITICAL", msg |-> described \o " failed", attachment |-> None]>>
       \o LoopRecords(res.errors) \o LoopRecords(res.failures)
  ELSE <<>>

(* ------------------------------- state -------------------------------- *)

VARIABLES
  argv,                \* sys.argv[1:]
  call,                \* the arguments nagios_script was called with
  pc,                  \* position of the run
  log_level_s,         \* local of nagios_script
  parsed_args,         \* namespace returned by parse_known_args
  selected_test_names, \* local of nagios_script
  slack_webhook_url,   \* local (parameter) of nagios_script
  slack_channel,       \* local (parameter) of nagios_script
  slack_user,          \* local (parameter) of nagios_script
  log_level,           \* local (parameter) of nagios_script
  handlers,            \* log.handlers: handlers added to the logger
  nagios_resource,     \* UnittestCaseResource.test_names
  fmt_metric,          \* UnittestCaseContext.fmt_metric
  check_name,          \* check.name
  metrics,             \* metrics yielded by probe, not evaluated yet
  metric,              \* name of the metric evaluate was last called with
  executed,            \* test methods run by the last evaluate call
  result,              \* unittest.TestResult of the last evaluate call
  status,              \* status of the Result returned by the last call
  hint,                \* hint of the Result returned by the last call
  records              \* log records emitted by the last evaluate call

vars == <<argv, call, pc, log_level_s, parsed_args, selected_test_names,
          slack_webhook_url, slack_channel, slack_user, log_level, handlers,
          nagios_resource, fmt_metric, check_name, metrics, metric, executed,
          result, status, hint, records>>

scriptVars == <<log_level_s, parsed_args, selected_test_names,
                slack_webhook_url, slack_channel, slack_user, log_level,
                handlers, nagios_resource, fmt_metric, check_name>>

evalVars == <<metric, executed, result, status, hint, records>>

\* the values a caller passes to nagios_script
CallSet ==
  [check_name        : {None, Some("chk")},
   log_level         : {None, Some(30), Some(35)},
   slack_webhook_url : {None, Some("hook")},
   slack_channel     : {None, Some("#ops")},
   slack_user        : {None, Some("nagios")}]

EmptyResult == [testsRun |-> 0, errors |-> <<>>, failures |-> <<>>]

Init ==
  /\ argv \in ArgvSet
  /\ call \in CallSet
  /\ pc = "start"
  /\ log_level_s = None
  /\ parsed_args = ParserDefaults(None, None, None, None)
  /\ selected_test_names = <<>>
  /\ slack_webhook_url = call.slack_webhook_url
  /\ slack_channel = call.slack_channel
  /\ slack_user = call.slack_user
  /\ log_level = call.log_level
  /\ handlers = <<>>
  /\ nagios_resource = <<>>
  /\ fmt_metric = None
  /\ check_name = None
  /\ metrics = <<>>
  /\ metric = None
  /\ executed = {}
  /\ result = EmptyResult
  /\ status = None
  /\ hint = <<>>
  /\ records = <<>>

(* ------------------------------ actions ------------------------------- *)

\* nagios_script up to the default log-level check
CheckDefaultLogLevel ==
  /\ pc = "start"
  /\ log_level_s' = levelToName_get(log_level)
  /\ pc' = IF log_level = None THEN "config_error" ELSE "parse"
  /\ UNCHANGED <<argv, call, parsed_args, selected_test_names,
                 slack_webhook_url, slack_channel, slack_user, log_level,
                 handlers, nagios_resource, fmt_metric, check_name, metrics>>
  /\ UNCHANGED evalVars

\* the add_argument calls and parser.parse_known_args()
ParseArgs ==
  /\ pc = "parse"
  /\ LET defaults == ParserDefaults(CheckNameDefault(call.check_name),
                                    log_level_s, slack_channel, slack_user)
         p == parse_known_args(argv, defaults)
     IN  IF p.ok
         THEN /\ parsed_args' = p.ns
              /\ selected_test_names' = p.extras
              /\ pc' = "resolve"
         ELSE /\ pc' = "usage_error"
              /\ UNCHANGED <<parsed_args, selected_test_names>>
  /\ UNCHANGED <<argv, call, log_level_s, slack_webhook_url, slack_channel,
                 slack_user, log_level, handlers, nagios_resource, fmt_metric,
                 check_name, metrics>>
  /\ UNCHANGED evalVars

\* command line takes precedence over the function inputs; the Slack
\* handler is added when a webhook URL is set
Resolve ==
  /\ pc = "resolve"
  /\ LET url     == Override(parsed_args.slack_webhook_url, slack_webhook_url)
         channel == Override(parsed_args.slack_channel, slack_channel)
         user    == Override(parsed_args.slack_user, slack_user)
         level   == nameToLevel_get(parsed_args.log_level)
     IN  /\ slack_webhook_url' = url
         /\ slack_channel' = channel
         /\ slack_user' = user
         /\ IF url # None
            THEN /\ log_level' = level
                 /\ IF level = None
                    THEN /\ pc' = "usage_error"
                         /\ UNCHANGED handlers
                    ELSE /\ pc' = "select"
                         /\ handlers' = Append(handlers,
                                          SlackHandler(url, channel, user, level))
            ELSE /\ pc' = "select"
                 /\ UNCHANGED <<log_level, handlers>>
  /\ UNCHANGED <<argv, call, log_level_s, parsed_args, selected_test_names,
                 nagios_resource, fmt_metric, check_name, metrics>>
  /\ UNCHANGED evalVars

\* default selection, construction of resource, context, summary and check
BuildCheck ==
  /\ pc = "select"
  /\ selected_test_names' = Selection(selected_test_names)
  /\ nagios_resource' = selected_test_names'
  /\ fmt_metric' = parsed_args.check_name
  /\ check_name' = parsed_args.check_name
  /\ pc' = "main"
  /\ UNCHANGED <<argv, call, log_level_s, parsed_args, slack_webhook_url,
                 slack_channel, slack_user, log_level, handlers, metrics>>
  /\ UNCHANGED evalVars

\* check.main() calls UnittestCaseResource.probe: one metric per test name
probe ==
  /\ pc = "main"
  /\ metrics' = nagios_resource
  /\ pc' = "evaluate"
  /\ UNCHANGED <<argv, call>>
  /\ UNCHANGED scriptVars
  /\ UNCHANGED evalVars

\* the check engine calls UnittestCaseContext.evaluate for the next metric
evaluate ==
  /\ pc = "evaluate"
  /\ metrics # <<>>
  /\ \E o \in [Methods -> Outcomes] :
       LET test_name  == Head(metrics)
           test_suite == loadTestsFromTestCase
           res        == RunSuite(test_suite, o)
       IN  /\ metric' = Some(test_name)
           /\ executed' = SeqToSet(test_suite)
           /\ result' = res
           /\ status' = Some(StatusOf(res))
           /\ hint' = HintOf(test_name, res)
           /\ records' = LogRecords(Val(fmt_metric), res)
  /\ metrics' = Tail(metrics)
  /\ UNCHANGED <<argv, call, pc>>
  /\ UNCHANGED scriptVars

\* every metric is evaluated: check.main() reports and exits
Exit ==
  /\ pc = "evaluate"
  /\ metrics = <<>>
  /\ pc' = "done"
  /\ UNCHANGED <<argv, call, metrics>>
  /\ UNCHANGED scriptVars
  /\ UNCHANGED evalVars

Next ==
  \/ CheckDefaultLogLevel
  \/ ParseArgs
  \/ Resolve
  \/ BuildCheck
  \/ probe
  \/ evaluate
  \/ Exit

Spec == Init /\ [][Next]_vars

(* ------------------- vocabulary of the properties --------------------- *)

\* positions of option f on the command line that are followed by a value
FlagPositions(f) ==
  {i \in 1..(Len(argv) - 1) : argv[i] = f /\ argv[i + 1] \notin Flags}

FlagGiven(f) == FlagPositions(f) # {}

\* the value of the last occurrence of option f
FlagValue(f) ==
  argv[1 + CHOOSE i \in FlagPositions(f) : \A j \in FlagPositions(f) : j <= i]

\* the command-line words that are not the value of an option, in order
Positionals ==
  LET idx  == [i \in 1..Len(argv) |-> i]
      keep == SelectSeq(idx, LAMBDA i : /\ argv[i] \notin Flags
                                        /\ (i = 1 \/ argv[i - 1] \notin Flags))
  IN  [k \in 1..Len(keep) |-> argv[keep[k]]]

\* the run got past the configuration of the notification handler
Configured == pc \in {"select", "main", "evaluate", "done"}

\* resource, context and check are constructed
Built == pc \in {"main", "evaluate", "done"}

\* evaluate has returned at least once
Evaluated == metric # None

Problems == result.errors \o result.failures

ProblemTests == {Problems[k][1] : k \in 1..Len(Problems)}

(* ------------------------------ C1 ------------------------------------ *)

\* C1: with problems = failures + errors of the test result, evaluate
\* returns Ok when problems = 0, Critical when problems = testsRun (and
\* problems > 0), and Warning in every other case.
C1_StatusByCounts ==
  Evaluated =>
    LET problems == Len(result.failures) + Len(result.errors)
    IN  /\ (problems = 0) => status = Some("Ok")
        /\ (problems # 0 /\ problems = result.testsRun) => status = Some("Critical")
        /\ (problems # 0 /\ problems # result.testsRun) => status = Some("Warn")

C1_Witness ==
  /\ Evaluated
  /\ status = Some("Critical")
  /\ Len(result.errors) > 0
  /\ Len(result.failures) > 0

(* ------------------------------ C2 ------------------------------------ *)

\* the tests an identifier stands for: the whole case for the class name,
\* the one method for 'Class.method'
TestsOf(id) ==
  IF id = ClassName THEN Methods ELSE {m \in Methods : TestId(m) = id}

KnownIds == {ClassName} \cup SeqToSet(test_names)

\* C2: the tests evaluate runs for a fact are those its identifier names:
\* the single method for a method identifier, the whole case for the class
\* name.
C2_RunsTestsOfIdentifier ==
  (Evaluated /\ Val(metric) \in KnownIds) => executed = TestsOf(Val(metric))

(* ------------------------------ C3 ------------------------------------ *)

HintNames == {hint[2 * k] : k \in 1..(Len(hint) \div 2)}

\* C3: a Critical or Warning outcome has the hint "All tests failed: " or
\* "Some tests failed: " followed by one name per recorded error or failure,
\* separated by ", "; every recorded test is named and no passing test is.
C3_HintNamesProblems ==
  (Evaluated /\ status \in {Some("Critical"), Some("Warn")}) =>
    /\ Len(hint) = 2 * Len(Problems)
    /\ hint[1] = (IF status = Some("Critical")
                  THEN "All tests failed: " ELSE "Some tests failed: ")
    /\ \A k \in 1..(Len(Problems) - 1) : hint[2 * k + 1] = ", "
    /\ HintNames = {TestStr(t) : t \in ProblemTests}
    /\ \A m \in executed \ ProblemTests : TestStr(m) \notin SeqToSet(hint)

C3_Witness ==
  /\ Evaluated
  /\ status = Some("Warn")
  /\ Len(hint) = 2
  /\ ProblemTests # {}
  /\ executed \ ProblemTests # {}

(* ------------------------------ C4 ------------------------------------ *)

\* C4: without test identifiers on the command line the resource gets the
\* one-element selection [class name] and the run executes every test
\* method; with identifiers the selection is exactly those identifiers.
C4_Selection ==
  /\ Built =>
       nagios_resource = (IF Positionals = <<>> THEN <<ClassName>> ELSE Positionals)
  /\ (pc = "evaluate" /\ ~Evaluated) => metrics = nagios_resource
  /\ (pc = "done" /\ Positionals = <<>>) =>
       (metric = Some(ClassName) /\ executed = Methods)

C4_Witness ==
  /\ pc = "done"
  /\ argv # <<>>
  /\ Positionals = <<>>
  /\ executed = Methods

(* ------------------------------ C5 ------------------------------------ *)

\* the value a setting must end up with: the flag's when given, else the
\* caller's
Expected(f, default) == IF FlagGiven(f) THEN Some(FlagValue(f)) ELSE default

ExpectedLevel ==
  IF FlagGiven("-l") THEN Some(NameToLevel[FlagValue("-l")]) ELSE call.log_level

\* C5: webhook URL, channel, user and log-level used by the run are the
\* command-line flag's value when the flag is given and the caller's default
\* otherwise; with no webhook URL from either, no handler is installed.
C5_FlagOverridesDefault ==
  Configured =>
    /\ slack_webhook_url = Expected("-s", call.slack_webhook_url)
    /\ slack_channel = Expected("-c", call.slack_channel)
    /\ slack_user = Expected("-u", call.slack_user)
    /\ \A i \in 1..Len(handlers) :
         /\ handlers[i].url = Expected("-s", call.slack_webhook_url)
         /\ handlers[i].channel = Expected("-c", call.slack_channel)
         /\ handlers[i].username = Expected("-u", call.slack_user)
         /\ handlers[i].level = ExpectedLevel
    /\ (~FlagGiven("-s") /\ call.slack_webhook_url = None) => handlers = <<>>

C5_Witness ==
  /\ Configured
  /\ FlagGiven("-s")
  /\ call.slack_webhook_url # None
  /\ Some(FlagValue("-s")) # call.slack_webhook_url
  /\ Len(handlers) = 1

(* ------------------------------ C6 ------------------------------------ *)

\* C6: a run adds at most one handler; once configuration is over there is
\* exactly one when a webhook URL is resolved, its level the resolved
\* threshold, and none otherwise; no test runs before configuration is over.
C6_HandlerOnce ==
  /\ Len(handlers) <= 1
  /\ Configured => (Len(handlers) = 1 <=> slack_webhook_url # None)
  /\ handlers # <<>> => (log_level # None /\ handlers[1].level = log_level)
  /\ executed # {} => Configured

C6_Witness ==
  /\ pc = "done"
  /\ executed # {}
  /\ Len(handlers) = 1
  /\ FlagGiven("-l")
  /\ handlers[1].level = Some(10)

(* ------------------------------ C7 ------------------------------------ *)

\* C7: when the -l/--slack-log-level value is not a standard severity name
\* the run never gets past configuration: it ends in a usage error (or the
\* earlier configuration error), with no handler and no test run.
C7_BadLevelIsUsageError ==
  (FlagGiven("-l") /\ FlagValue("-l") \notin LOG_LEVEL_NAMES) =>
    /\ ~Configured
    /\ handlers = <<>>
    /\ executed = {}

(* ------------------------------ C8 ------------------------------------ *)

\* C8: when the caller's default log_level is not a recognised logging
\* level, the configuration error is raised before the command line is
\* parsed.
C8_BadDefaultIsConfigError ==
  (call.log_level = None \/ Val(call.log_level) \notin DOMAIN LevelToName) =>
    pc \in {"start", "config_error"}

(* ------------------------------ C9 ------------------------------------ *)

\* C9: check.name and the context's fmt_metric are the -n/--test-name value
\* when given and the class name otherwise, whatever check_name the caller
\* passed.
C9_DisplayName ==
  Built =>
    /\ check_name = Expected("-n", Some(ClassName))
    /\ fmt_metric = Expected("-n", Some(ClassName))

C9_Witness ==
  /\ Built
  /\ call.check_name # None
  /\ ~FlagGiven("-n")
  /\ check_name = Some(ClassName)

(* ------------------------------ C10 ----------------------------------- *)

\* C10: a call of evaluate with n > 0 problems has logged one CRITICAL
\* record, then for each error and then each failure one ERROR record
\* naming the test directly followed by one DEBUG record with that
\* problem's detail; with no problem it has logged nothing.
C10_LogRecords ==
  Evaluated =>
    LET n == Len(Problems)
    IN  /\ (n = 0) => records = <<>>
        /\ (n > 0) =>
             /\ Len(records) = 1 + 2 * n
             /\ records[1].level = "CRITICAL"
             /\ \A k \in 1..n :
                  /\ records[2 * k].level = "ERROR"
                  /\ records[2 * k].msg = TestStr(Problems[k][1])
                  /\ records[2 * k + 1].level = "DEBUG"
                  /\ records[2 * k + 1].attachment = Some(Problems[k][2])

C10_Witness ==
  /\ Evaluated
  /\ Len(result.errors) > 0
  /\ Len(result.failures) > 0
  /\ Len(records) = 1 + 2 * Len(Problems)

====
